---- MODULE Spec2Model ----
(***************************************************************************)
(* BookBound reading planner: the ReadingData state, the input handler and *)
(* the schedule projection of the three App components of the repository:  *)
(*   "advice180"  src/App.tsx:23-362    (advice effect, day counter from 1, *)
(*                                       break at 180)                      *)
(*   "plain365"   src/App.tsx:383-710   (day counter from 1, break at 365)  *)
(*   "flag180"    src/unnamed/part_000 and src/App.tsx:734-1145             *)
(*                                      (startsFromToday flag, day counter  *)
(*                                       from 0, break at 180)              *)
(* Strings are sequences of one-character strings, dates are day numbers   *)
(* counted from 2023-01-01.                                                *)
(***************************************************************************)
EXTENDS Integers, Sequences, FiniteSets

VARIABLES
    variant,           \* which of the three components runs
    today,             \* const today = useMemo(() => new Date(), [])
    data,              \* const [data, setData] = useState<ReadingData>(...)
    schedule,          \* const schedule = useMemo(() => {...}, [data, pagesLeft, today])
    pc,                \* where a step-by-step run of the useMemo callback stands
    items,             \* const items: ScheduleItem[] = []
    currentPagesRead,  \* let currentPagesRead = Number(data.pagesRead)
    dayCount,          \* let dayCount = 0
    savedData,         \* const savedData = localStorage.getItem(STORAGE_KEY)
    storage,           \* the item of localStorage under STORAGE_KEY
    advice,            \* const [advice, setAdvice] = useState<string>('')
    timers,            \* the pending timers of setTimeout(fetchAdvice, 2000)
    fetches,           \* the calls of getReadingAdvice awaited by fetchAdvice
    issued,            \* how many calls of getReadingAdvice have been made
    service,           \* which of the three getReadingAdvice is linked
    apiKey             \* whether process.env.API_KEY is set

adviceVars == <<advice, timers, fetches, issued>>

serviceVars == <<service, apiKey>>

vars == <<variant, today, data, schedule, pc, items, currentPagesRead, dayCount,
          savedData, storage, advice, timers, fetches, issued, service, apiKey>>

(***************************************************************************)
(* Bounds of the model.                                                    *)
(***************************************************************************)
\* numeric inputs "0" .. MaxSmall are typed into the number fields
MaxSmall == 3
\* numeric inputs cap, cap + 1, .., cap + MaxOver are typed for each loop cap
MaxOver == 2
\* the projection loop is followed for at most MaxSteps steps
MaxSteps == 512

(***************************************************************************)
(* Strings.                                                                *)
(***************************************************************************)
Digit == <<"0", "1", "2", "3", "4", "5", "6", "7", "8", "9">>

DigitValue(c) == CHOOSE v \in 0..9 : Digit[v + 1] = c

IsDigit(c) == \E v \in 0..9 : Digit[v + 1] = c

\* decimal digits of a natural number, as String(n) in JavaScript
RECURSIVE NumberToString(_)
NumberToString(n) == IF n < 10 THEN <<Digit[n + 1]>>
               ELSE NumberToString(n \div 10) \o <<Digit[(n % 10) + 1]>>

\* a two-digit field of a date pattern ("dd", "MM")
Pad2(n) == IF n < 10 THEN <<"0">> \o NumberToString(n) ELSE NumberToString(n)

IsWhiteSpace(c) == c = " "

RECURSIVE SkipWhiteSpace(_)
SkipWhiteSpace(s) == IF s # <<>> /\ IsWhiteSpace(Head(s))
                     THEN SkipWhiteSpace(Tail(s)) ELSE s

\* the value of the longest prefix of digits of s, acc being the value so far
RECURSIVE ParseDigits(_, _)
ParseDigits(s, acc) == IF s # <<>> /\ IsDigit(Head(s))
                       THEN ParseDigits(Tail(s), 10 * acc + DigitValue(Head(s)))
                       ELSE acc

\* parseInt(value, 10): optional white space, optional sign, then the longest
\* run of decimal digits; NaN (isNaN) when there is no digit
parseInt(value) ==
    LET s    == SkipWhiteSpace(value)
        neg  == s # <<>> /\ Head(s) = "-"
        body == IF s # <<>> /\ Head(s) \in {"-", "+"} THEN Tail(s) ELSE s
    IN  IF body = <<>> \/ ~IsDigit(Head(body)) THEN [isNaN |-> TRUE, number |-> 0]
        ELSE [isNaN  |-> FALSE,
              number |-> IF neg THEN 0 - ParseDigits(body, 0) ELSE ParseDigits(body, 0)]

\* x || 0 for the result x of parseInt: NaN and 0 are falsy
OrZero(x) == IF x.isNaN THEN 0 ELSE x.number

Max(a, b) == IF a >= b THEN a ELSE b

Min(a, b) == IF a <= b THEN a ELSE b

\* a slip: Math.abs for Math.max, so a negative number loses its sign
SanitiseMagnitude(value) ==
    IF value = <<>> THEN 0
    ELSE Max(OrZero(parseInt(value)), 0 - OrZero(parseInt(value)))

\* value === '' ? 0 : Math.max(0, parseInt(value, 10) || 0)
Sanitise(value) == IF value = <<>> THEN 0 ELSE Max(0, OrZero(parseInt(value)))

(***************************************************************************)
(* Calendar: date-fns addDays and format on local calendar dates.          *)
(***************************************************************************)
IsLeap(y) == (y % 4 = 0 /\ y % 100 # 0) \/ y % 400 = 0

DaysInYear(y) == IF IsLeap(y) THEN 366 ELSE 365

DaysInMonth(y, m) == IF m = 2 THEN (IF IsLeap(y) THEN 29 ELSE 28)
                     ELSE IF m \in {4, 6, 9, 11} THEN 30 ELSE 31

\* the year of day number n, searching from year y whose first day is number first
RECURSIVE YearOf(_, _, _)
YearOf(n, y, first) == IF n < first + DaysInYear(y) THEN <<y, n - first>>
                       ELSE YearOf(n, y + 1, first + DaysInYear(y))

\* the month and day of the k-th day (from 0) of year y, searching from month m
RECURSIVE MonthOf(_, _, _)
MonthOf(k, y, m) == IF k < DaysInMonth(y, m) THEN <<m, k + 1>>
                    ELSE MonthOf(k - DaysInMonth(y, m), y, m + 1)

\* getFullYear / getMonth + 1 / getDate / getDay of day number n
Civil(n) == LET yk == YearOf(n, 2023, 0)
                md == MonthOf(yk[2], yk[1], 1)
            IN  [year |-> yk[1], month |-> md[1], day |-> md[2], dow |-> n % 7]

RECURSIVE DaysBeforeMonth(_, _)
DaysBeforeMonth(y, m) == IF m = 1 THEN 0
                         ELSE DaysBeforeMonth(y, m - 1) + DaysInMonth(y, m - 1)

RECURSIVE DaysBeforeYear(_)
DaysBeforeYear(y) == IF y = 2023 THEN 0
                     ELSE DaysBeforeYear(y - 1) + DaysInYear(y - 1)

\* the day number of y-m-d (new Date(y, m - 1, d))
DayNumber(y, m, d) == DaysBeforeYear(y) + DaysBeforeMonth(y, m) + (d - 1)

\* addDays(date, amount): the same local time amount calendar days later
addDays(date, amount) == date + amount

MMM == << <<"J","a","n">>, <<"F","e","b">>, <<"M","a","r">>, <<"A","p","r">>,
          <<"M","a","y">>, <<"J","u","n">>, <<"J","u","l">>, <<"A","u","g">>,
          <<"S","e","p">>, <<"O","c","t">>, <<"N","o","v">>, <<"D","e","c">> >>

\* index 1 is Sunday (getDay() = 0); day number 0, 2023-01-01, is a Sunday
EEE == << <<"S","u","n">>, <<"M","o","n">>, <<"T","u","e">>, <<"W","e","d">>,
          <<"T","h","u">>, <<"F","r","i">>, <<"S","a","t">> >>

EEEE == << EEE[1] \o <<"d","a","y">>, EEE[2] \o <<"d","a","y">>,
           EEE[3] \o <<"s","d","a","y">>, EEE[4] \o <<"n","e","s","d","a","y">>,
           EEE[5] \o <<"r","s","d","a","y">>, EEE[6] \o <<"d","a","y">>,
           EEE[7] \o <<"u","r","d","a","y">> >>

\* format(date, 'MMM dd, EEE'), e.g. "Dec 30, Sat"
FormatMMMddEEE(date) ==
    LET c == Civil(date)
    IN  MMM[c.month] \o <<" ">> \o Pad2(c.day) \o <<",", " ">> \o EEE[c.dow + 1]

\* format(date, 'EEEE, MMM d'), e.g. "Saturday, Dec 30"
FormatEEEEMMMd(date) ==
    LET c == Civil(date)
    IN  EEEE[c.dow + 1] \o <<",", " ">> \o MMM[c.month] \o <<" ">> \o NumberToString(c.day)

\* format(date, 'yyyy-MM-dd'), e.g. "2023-12-30"
FormatISO(date) ==
    LET c == Civil(date)
    IN  NumberToString(c.year) \o <<"-">> \o Pad2(c.month) \o <<"-">> \o Pad2(c.day)

(***************************************************************************)
(* Math.round((c / t) * 100) in IEEE-754 double arithmetic, for integers   *)
(* c >= 0 and t > 0.  The quotient c / t is rounded to 53 significant bits *)
(* (round to nearest, ties to even), the product by 100 is rounded again,  *)
(* and Math.round rounds halves up.  The two roundings move the value by   *)
(* less than 2^-40 for the operands of the model, so the result is the     *)
(* exact round-half-up of 100c/t unless 100c/t is exactly k + 1/2; there   *)
(* the result is k when the computed product falls below k + 1/2, and      *)
(* k + 1 otherwise.                                                        *)
(***************************************************************************)
RECURSIVE Pow2(_)
Pow2(n) == IF n = 0 THEN 1 ELSE 2 * Pow2(n - 1)

\* (c * 2^n) mod t, by doubling sixteen times at a step (the products stay
\* below 2^31 for t < 2^15, and the evaluation stays shallow)
RECURSIVE ShiftMod(_, _, _)
ShiftMod(c, t, n) == IF n <= 16 THEN ((c % t) * Pow2(n)) % t
                     ELSE ShiftMod(((c % t) * Pow2(16)) % t, t, n - 16)

\* the binary exponent e of c / t: 2^e <= c / t < 2^(e + 1), for c > 0
RECURSIVE ExponentUp(_, _, _)
ExponentUp(c, t, e) == IF t * Pow2(e + 1) <= c THEN ExponentUp(c, t, e + 1) ELSE e

RECURSIVE ExponentDown(_, _, _)
ExponentDown(c, t, p) == IF c * Pow2(p) < t THEN ExponentDown(c, t, p + 1) ELSE 0 - p

Exponent(c, t) == IF c >= t THEN ExponentUp(c, t, 0) ELSE ExponentDown(c, t, 1)

\* the largest u with 2^u <= n, for n >= 1
RECURSIVE FloorLog2(_, _)
FloorLog2(n, u) == IF Pow2(u + 1) <= n THEN FloorLog2(n, u + 1) ELSE u

\* the double c / t is strictly below the rational c / t: with s = 52 - e,
\* c * 2^s / t = M + r / t for the 53-bit integer M, and the quotient is
\* rounded down when r / t < 1/2, or r / t = 1/2 and M is even
QuotientRoundsDown(c, t) ==
    LET s    == 52 - Exponent(c, t)
        r    == ShiftMod(c, t, s)
        Modd == 2 * ShiftMod(c, t, s - 1) >= t
    IN  (r > 0 /\ 2 * r < t) \/ (2 * r = t /\ ~Modd)

\* for 100c/t = k + 1/2 and a quotient rounded down by (r / t) * 2^-s: the
\* product 100 * (c / t) is rounded to a double below k + 1/2 when the error
\* 100 * (r / t) * 2^-s exceeds half the spacing of the doubles below k + 1/2
ProductBelowHalf(c, t, k) ==
    LET e     == Exponent(c, t)
        s     == 52 - e
        r     == ShiftMod(c, t, s)
        u     == FloorLog2(2 * k + 1, 0)
        j     == u - 1
        half  == IF 2 * k + 1 = Pow2(u) THEN j - 54 ELSE j - 53
    IN  QuotientRoundsDown(c, t) /\ 100 * r > t * Pow2(half + s)

RoundPercentTiesUp(c, t) == (200 * c + t) \div (2 * t)

\* a slip: the percentage of the pages that are left
RoundPercentOfRest(c, t) == RoundPercentTiesUp(t - c, t)

\* Math.round((c / t) * 100)
RoundPercent(c, t) ==
    IF (200 * c) % t # 0 \/ ((200 * c) \div t) % 2 = 0
    THEN RoundPercentTiesUp(c, t)
    ELSE LET k == (((200 * c) \div t) - 1) \div 2
         IN  IF ProductBelowHalf(c, t, k) THEN k ELSE k + 1

(***************************************************************************)
(* The three components.                                                   *)
(***************************************************************************)
Variants == {"advice180", "plain365", "flag180"}

\* if (dayCount > 180) break;
Limit180 == 180
\* if (dayCount > 365) break;
Limit365 == 365

Limit(v) == IF v = "plain365" THEN Limit365 ELSE Limit180

\* a slip: every component counts the days from 0
FirstDayCountZero(v) == 0

\* let dayCount = 1 (advice180, plain365); let dayCount = 0 (flag180)
FirstDayCount(v) == IF v = "flag180" THEN 0 ELSE 1

\* the days of 2023 to 2026, and the two patterns tabulated over them
Days == 0 .. DayNumber(2026, 12, 31)

MMMddEEETable == [date \in Days |-> FormatMMMddEEE(date)]

EEEEMMMdTable == [date \in Days |-> FormatEEEEMMMd(date)]

\* format(date, 'MMM dd, EEE') or format(date, 'EEEE, MMM d')
format(v, date) == IF v = "plain365" THEN EEEEMMMdTable[date] ELSE MMMddEEETable[date]

HasFlag(d) == "startsFromToday" \in DOMAIN d

\* a slip: the two branches of the conditional exchanged
dayOffsetSwapped(v, d) == IF v = "flag180"
                          THEN (IF HasFlag(d) /\ d.startsFromToday THEN 1 ELSE 0)
                          ELSE 0

\* let dayOffset = data.startsFromToday ? 0 : 1; the components without the
\* flag add no offset to the day counter
dayOffset(v, d) == IF v = "flag180"
                   THEN (IF HasFlag(d) /\ d.startsFromToday THEN 0 ELSE 1)
                   ELSE 0

\* const pagesLeft = Math.max(0, data.totalPages - data.pagesRead)
pagesLeft(d) == Max(0, d.totalPages - d.pagesRead)

(***************************************************************************)
(* The schedule projection: the body of useMemo(() => {...}).              *)
(***************************************************************************)
\* a slip: the day counter is left out of the date
DayOfEntryStuck(v, tdy, d, count) == addDays(tdy, dayOffset(v, d) + FirstDayCount(v))

\* addDays(today, dayOffset + dayCount), or addDays(today, dayCount) in the
\* components without the flag
DayOfEntry(v, tdy, d, count) == addDays(tdy, dayOffset(v, d) + count)

\* a slip: the last day is not cut to the pages that remain
ReadTodayFullPace(pace, remainingForTarget) == pace

\* const readToday = Math.min(pace, remainingForTarget)
ReadToday(pace, remainingForTarget) == Min(pace, remainingForTarget)

\* a slip: a day starts on the page the day before ended on
StartPageOverlap(pagesReadBefore) == pagesReadBefore

\* const startPage = currentPagesRead + 1
StartPage(pagesReadBefore) == pagesReadBefore + 1

\* const endPage = currentPagesRead + readToday
EndPage(pagesReadBefore, readToday) == pagesReadBefore + readToday

\* one pass through the body of while (currentPagesRead < total), from the
\* loop state st = [items, currentPagesRead, dayCount]
Iteration(v, tdy, d, st) ==
    LET total              == d.totalPages
        pace               == d.pagesPerDay
        date               == DayOfEntry(v, tdy, d, st.dayCount)
        remainingForTarget == total - st.currentPagesRead
        readToday          == ReadToday(pace, remainingForTarget)
        startPage          == StartPage(st.currentPagesRead)
        endPage            == EndPage(st.currentPagesRead, readToday)
        newPagesRead       == st.currentPagesRead + readToday
    IN  [items |-> Append(st.items,
                     [date                |-> format(v, date),
                      pagesToReadToday    |-> readToday,
                      startPage           |-> startPage,
                      endPage             |-> endPage,
                      cumulativePagesRead |-> newPagesRead,
                      percentComplete     |-> RoundPercent(newPagesRead, total)]),
         currentPagesRead |-> newPagesRead,
         dayCount         |-> st.dayCount + 1]

\* a slip: the loop is left when the counter reaches the limit
BreakAtLimit(v, st) == st.dayCount >= Limit(v)

\* if (dayCount > 180) break;  after dayCount++
Break(v, st) == st.dayCount > Limit(v)

\* while (currentPagesRead < total) { ... }
LoopTest(d, st) == st.currentPagesRead < d.totalPages

\* a slip: the pace is not tested
EarlyReturnPagesOnly(d) == pagesLeft(d) <= 0

\* if (pagesLeft <= 0 || data.pagesPerDay <= 0) return items;
EarlyReturn(d) == pagesLeft(d) <= 0 \/ d.pagesPerDay <= 0

\* the loop state on entry; done says that the loop has been left
LoopEntry(v, d) == [items            |-> <<>>,
                    currentPagesRead |-> d.pagesRead,
                    dayCount         |-> FirstDayCount(v),
                    done             |-> FALSE]

\* the loop test, and one pass through the body when it holds
LoopStep(v, tdy, d, st) ==
    IF st.done THEN st
    ELSE IF LoopTest(d, st)
         THEN LET next == Iteration(v, tdy, d, st)
              IN  [items            |-> next.items,
                   currentPagesRead |-> next.currentPagesRead,
                   dayCount         |-> next.dayCount,
                   done             |-> Break(v, next)]
         ELSE [st EXCEPT !.done = TRUE]

\* the loop followed for at most n steps (halving n keeps the evaluation
\* shallow); the result has done = FALSE when the loop is still running
RECURSIVE RunLoop(_, _, _, _, _)
RunLoop(v, tdy, d, st, n) ==
    IF st.done \/ n = 0 THEN st
    ELSE IF n = 1 THEN LoopStep(v, tdy, d, st)
    ELSE RunLoop(v, tdy, d, RunLoop(v, tdy, d, st, n \div 2), n - (n \div 2))

Schedule(v, tdy, d) ==
    IF EarlyReturn(d) THEN <<>>
    ELSE RunLoop(v, tdy, d, LoopEntry(v, d), MaxSteps).items

\* a slip: the date of the first entry
estimatedFinishDateFirst(sch) == IF Len(sch) > 0 THEN sch[1].date
                                 ELSE <<"N", "/", "A">>

\* schedule.length > 0 ? schedule[schedule.length - 1].date : 'N/A'
estimatedFinishDate(sch) == IF Len(sch) > 0 THEN sch[Len(sch)].date
                            ELSE <<"N", "/", "A">>

(***************************************************************************)
(* Inputs.                                                                 *)
(***************************************************************************)
\* the clock at mount: 2023-12-30 (a leap day and a new year ahead) and
\* 2025-06-15
Todays == {DayNumber(2023, 12, 30), DayNumber(2025, 6, 15)}

Titles == {<<>>, <<"D", "u", "n", "e">>}

\* what a number field can hold that is not a plain natural number
OddNumbers == {<<>>, <<"-", "2">>, <<"1", "e", "2">>}

SmallNumbers == {NumberToString(n) : n \in 0..MaxSmall}

\* book lengths at and just over the loop limit of the component
LongBooks(v) == {NumberToString(Limit(v) + n) : n \in 0..MaxOver}

\* the value of a date field: a date picked after today
TargetDates(tdy) == {FormatISO(addDays(tdy, 10))}

InputValues(v, tdy, name) ==
    CASE name = "bookTitle"        -> Titles
      [] name = "targetFinishDate" -> TargetDates(tdy)
      [] name = "totalPages"       -> SmallNumbers \cup OddNumbers \cup LongBooks(v)
      [] OTHER                     -> SmallNumbers \cup OddNumbers

TextFields == {"bookTitle", "totalPages", "pagesRead", "targetFinishDate", "pagesPerDay"}

(***************************************************************************)
(* State.                                                                  *)
(***************************************************************************)
\* the initial ReadingData when nothing is saved
DefaultData(v, tdy) ==
    LET base == [bookTitle        |-> <<>>,
                 totalPages       |-> 0,
                 pagesRead        |-> 0,
                 targetFinishDate |-> FormatISO(addDays(tdy, 14)),
                 pagesPerDay      |-> 20]
    IN  IF v = "flag180"
        THEN [f \in DOMAIN base \cup {"startsFromToday"} |->
                 IF f = "startsFromToday" THEN FALSE ELSE base[f]]
        ELSE base

\* a slip: a pace edit clears the deadline, and a deadline edit the pace
SetFieldCoupled(prev, name, newValue) ==
    [f \in DOMAIN prev \cup {name} |->
        IF f = name THEN newValue
        ELSE IF name = "pagesPerDay" /\ f = "targetFinishDate" THEN <<>>
        ELSE IF name = "targetFinishDate" /\ f = "pagesPerDay" THEN 0
        ELSE prev[f]]

\* { ...prev, [name]: newValue }, as in setData(prev => ({ ...prev, [name]: newValue }))
SetField(prev, name, newValue) ==
    [f \in DOMAIN prev \cup {name} |-> IF f = name THEN newValue ELSE prev[f]]

(***************************************************************************)
(* localStorage: JSON.stringify and JSON.parse of ReadingData.  A JSON     *)
(* text is the sequence of its tokens, each [kind, text] with text the     *)
(* characters of the token; the empty sequence stands for no item (null).  *)
(***************************************************************************)
Punct(c) == [kind |-> "punct", text |-> <<c>>]

\* the keys of ReadingData in the order the object literal lists them
FieldOrder == <<"bookTitle", "totalPages", "pagesRead", "targetFinishDate",
                "pagesPerDay", "startsFromToday">>

FieldChars(f) ==
    CASE f = "bookTitle"        -> <<"b","o","o","k","T","i","t","l","e">>
      [] f = "totalPages"       -> <<"t","o","t","a","l","P","a","g","e","s">>
      [] f = "pagesRead"        -> <<"p","a","g","e","s","R","e","a","d">>
      [] f = "targetFinishDate" -> <<"t","a","r","g","e","t","F","i","n","i","s","h",
                                     "D","a","t","e">>
      [] f = "pagesPerDay"      -> <<"p","a","g","e","s","P","e","r","D","a","y">>
      [] f = "startsFromToday"  -> <<"s","t","a","r","t","s","F","r","o","m",
                                     "T","o","d","a","y">>

True == <<"t","r","u","e">>

False == <<"f","a","l","s","e">>

\* the token of a value of field f: a string, a number or a boolean
ValueToken(f, x) ==
    CASE f \in {"bookTitle", "targetFinishDate"} -> [kind |-> "string", text |-> x]
      [] f = "startsFromToday" -> [kind |-> "literal", text |-> IF x THEN True ELSE False]
      [] OTHER -> [kind |-> "number", text |-> NumberToString(x)]

\* "key":value of the i-th key of FieldOrder and on, for the keys d has
RECURSIVE StringifyMembers(_, _, _)
StringifyMembers(d, i, first) ==
    IF i > Len(FieldOrder) THEN <<>>
    ELSE LET f == FieldOrder[i]
         IN  IF f \in DOMAIN d
             THEN (IF first THEN <<>> ELSE <<Punct(",")>>)
                  \o <<[kind |-> "string", text |-> FieldChars(f)], Punct(":"),
                       ValueToken(f, d[f])>>
                  \o StringifyMembers(d, i + 1, FALSE)
             ELSE StringifyMembers(d, i + 1, first)

\* JSON.stringify(data)
JSONstringify(d) == <<Punct("{")>> \o StringifyMembers(d, 1, TRUE) \o <<Punct("}")>>

IsPunct(tok, c) == tok.kind = "punct" /\ tok.text = <<c>>

\* the value a value token stands for
TokenValue(tok) ==
    CASE tok.kind = "string" -> tok.text
      [] tok.kind = "number" -> ParseDigits(tok.text, 0)
      [] OTHER               -> tok.text = True

IsValueToken(tok) ==
    \/ tok.kind = "string"
    \/ tok.kind = "number" /\ tok.text # <<>> /\ \A k \in 1..Len(tok.text) : IsDigit(tok.text[k])
    \/ tok.kind = "literal" /\ tok.text \in {True, False}

EmptyObject == [f \in {} |-> 0]

\* the members from token i on, added to obj; ok is FALSE on a syntax error
RECURSIVE ParseMembers(_, _, _)
ParseMembers(t, i, obj) ==
    IF /\ i + 3 <= Len(t)
       /\ t[i].kind = "string"
       /\ IsPunct(t[i + 1], ":")
       /\ IsValueToken(t[i + 2])
    THEN LET known == {f \in {FieldOrder[k] : k \in 1..Len(FieldOrder)} : FieldChars(f) = t[i].text}
             next  == IF known = {} THEN obj
                      ELSE SetField(obj, CHOOSE f \in known : TRUE, TokenValue(t[i + 2]))
         IN  IF IsPunct(t[i + 3], "}")
             THEN [ok |-> i + 3 = Len(t), value |-> next]
             ELSE IF IsPunct(t[i + 3], ",") THEN ParseMembers(t, i + 4, next)
             ELSE [ok |-> FALSE, value |-> obj]
    ELSE [ok |-> FALSE, value |-> obj]

\* JSON.parse(text) for the text of an object; ok is FALSE when it throws
JSONparse(t) ==
    IF Len(t) >= 2 /\ IsPunct(t[1], "{")
    THEN (IF Len(t) = 2 THEN [ok |-> IsPunct(t[2], "}"), value |-> EmptyObject]
          ELSE ParseMembers(t, 2, EmptyObject))
    ELSE [ok |-> FALSE, value |-> EmptyObject]

\* the components that keep ReadingData in localStorage
UsesStorage(v) == v # "plain365"

\* a slip: the saved record is returned as it was parsed
InitialDataUnmigrated(v, tdy, saved) ==
    IF UsesStorage(v) /\ saved # <<>> /\ JSONparse(saved).ok
    THEN JSONparse(saved).value
    ELSE DefaultData(v, tdy)

\* the useState initialiser: the saved record when there is one and it
\* parses (with startsFromToday defaulted to false in flag180), or else the
\* default ReadingData
InitialData(v, tdy, saved) ==
    IF UsesStorage(v) /\ saved # <<>> /\ JSONparse(saved).ok
    THEN LET parsed == JSONparse(saved).value
         IN  IF v = "flag180" /\ ~HasFlag(parsed)
             THEN SetField(parsed, "startsFromToday", FALSE)
             ELSE parsed
    ELSE DefaultData(v, tdy)

\* a slip: only the first write reaches localStorage
SaveEffectOnce(v, d, item) ==
    IF UsesStorage(v) /\ item = <<>> THEN JSONstringify(d) ELSE item

\* useEffect(() => { localStorage.setItem(STORAGE_KEY, JSON.stringify(data)) }, [data])
SaveEffect(v, d, item) == IF UsesStorage(v) THEN JSONstringify(d) ELSE item

(***************************************************************************)
(* The advice effect of the component with the Gemini tip:                 *)
(* useEffect(() => {...}, [data.bookTitle, pagesLeft, data.pagesPerDay]).  *)
(* The text of an advice is known only by the request it answers.          *)
(***************************************************************************)
HasAdvice(v) == v = "advice180"

\* setTimeout(fetchAdvice, 2000)
AdviceDelay == 2000

\* useState<string>(''), setAdvice('')
NoAdvice == [kind |-> "empty", title |-> <<>>, pagesLeft |-> 0, pace |-> 0, seq |-> 0]

\* the dependencies of the effect, which fetchAdvice closes over
Deps(d) == [title |-> d.bookTitle, pagesLeft |-> pagesLeft(d), pace |-> d.pagesPerDay]

\* if (!data.bookTitle || pagesLeft === 0)
EffectSkips(deps) == deps.title = <<>> \/ deps.pagesLeft = 0

\* const timer = setTimeout(fetchAdvice, 2000): a timer with nothing elapsed
setTimeout(deps) == [title |-> deps.title, pagesLeft |-> deps.pagesLeft,
                     pace |-> deps.pace, elapsed |-> 0]

TimersOf(tms, deps) ==
    {t \in tms : t.title = deps.title /\ t.pagesLeft = deps.pagesLeft /\ t.pace = deps.pace}

\* a slip: the cleanup leaves the timer running
clearTimeoutForgotten(tms, deps) == tms

\* return () => clearTimeout(timer): the cleanup of the run for deps
clearTimeout(tms, deps) == tms \ TimersOf(tms, deps)

\* the advice after a run of the effect body
AdviceOnRun(deps, adv) == IF EffectSkips(deps) THEN NoAdvice ELSE adv

\* the timers after a run of the effect body
TimersOnRun(deps, tms) == IF EffectSkips(deps) THEN tms ELSE tms \cup {setTimeout(deps)}

\* the advice after the render that takes prev to d: the effect runs when a
\* dependency has changed
AdviceAfter(v, prev, d, adv) ==
    IF HasAdvice(v) /\ Deps(d) # Deps(prev) THEN AdviceOnRun(Deps(d), adv) ELSE adv

\* the timers after the render that takes prev to d: the cleanup of the
\* last run, then the effect body
TimersAfter(v, prev, d, tms) ==
    IF HasAdvice(v) /\ Deps(d) # Deps(prev)
    THEN TimersOnRun(Deps(d), clearTimeout(tms, Deps(prev)))
    ELSE tms

\* a slip: a schedule once computed is kept
useMemoStale(v, tdy, d, cached, changed) ==
    IF changed /\ cached = <<>> THEN Schedule(v, tdy, d) ELSE cached

\* useMemo(() => {...}, [data, pagesLeft, today]): the callback runs again
\* when a dependency has changed (setData makes a new data object each time)
useMemo(v, tdy, d, cached, changed) ==
    IF changed THEN Schedule(v, tdy, d) ELSE cached

\* the first render with nothing in localStorage
Init ==
    /\ variant \in Variants
    /\ today \in Todays
    /\ savedData = <<>>
    /\ data = InitialData(variant, today, savedData)
    /\ schedule = Schedule(variant, today, data)
    /\ storage = SaveEffect(variant, data, savedData)
    /\ pc = "idle"
    /\ items = <<>>
    /\ currentPagesRead = 0
    /\ dayCount = 0
    /\ advice = NoAdvice
    /\ timers = (IF HasAdvice(variant) THEN TimersOnRun(Deps(data), {}) ELSE {})
    /\ fetches = {}
    /\ issued = 0
    /\ service = "geminiService"
    /\ apiKey = TRUE

\* the new value handleInputChange stores for an event on a text, number or
\* date field
NewValue(name, value) ==
    IF name # "bookTitle" /\ name # "targetFinishDate" THEN Sanitise(value) ELSE value

\* handleInputChange for a text, number or date field, with the render and
\* the save and advice effects that follow it
handleInputChange(name, value) ==
    /\ data' = SetField(data, name, NewValue(name, value))
    /\ schedule' = useMemo(variant, today, data', schedule, TRUE)
    /\ storage' = SaveEffect(variant, data', storage)
    /\ advice' = AdviceAfter(variant, data, data', advice)
    /\ timers' = TimersAfter(variant, data, data', timers)
    /\ UNCHANGED <<variant, today, pc, items, currentPagesRead, dayCount, savedData,
                   fetches, issued, serviceVars>>

\* handleInputChange for the startsFromToday checkbox (type === 'checkbox'),
\* with the render and the save effect that follow it
handleCheckboxChange(name, checked) ==
    /\ variant = "flag180"
    /\ data' = SetField(data, name, checked)
    /\ schedule' = useMemo(variant, today, data', schedule, TRUE)
    /\ storage' = SaveEffect(variant, data', storage)
    /\ advice' = AdviceAfter(variant, data, data', advice)
    /\ timers' = TimersAfter(variant, data, data', timers)
    /\ UNCHANGED <<variant, today, pc, items, currentPagesRead, dayCount, savedData,
                   fetches, issued, serviceVars>>

EditField == \E name \in TextFields : \E value \in InputValues(variant, today, name) :
                 handleInputChange(name, value)

ToggleFlag == \E checked \in BOOLEAN : handleCheckboxChange("startsFromToday", checked)

Next == EditField \/ ToggleFlag

Spec == Init /\ [][Next]_vars

(***************************************************************************)
(* Properties of the projection, stated on the inputs it is given.         *)
(***************************************************************************)
Ceil(a, b) == (a + b - 1) \div b

\* the days the remaining pages take at the pace: ceil((total - read) / pace)
DaysNeeded == Ceil(data.totalPages - data.pagesRead, data.pagesPerDay)

LastEntry == schedule[Len(schedule)]

\* the cumulative pages before entry i
CumulativeBefore(i) == IF i = 1 THEN data.pagesRead
                       ELSE schedule[i - 1].cumulativePagesRead

\* the projection has work to do: pages are left and the pace is positive
Projecting == data.pagesPerDay > 0 /\ data.pagesRead < data.totalPages

\* the days needed do not exceed the limit written in the loop
UnderCap == Projecting /\ DaysNeeded <= Limit(variant)

\* the offset of the first day from today
FirstOffset == IF HasFlag(data) /\ data.startsFromToday THEN 0 ELSE 1

\* C1: for totalPages >= pagesRead >= 0 and dailyPace > 0 with
\* ceil((totalPages - pagesRead) / dailyPace) under the safety cap, the
\* schedule has exactly that many entries and its last entry's
\* cumulativePagesRead is totalPages.
C1_LengthAndFinalTotal ==
    (/\ data.totalPages >= data.pagesRead
     /\ data.pagesRead >= 0
     /\ data.pagesPerDay > 0
     /\ DaysNeeded <= Limit(variant))
    => /\ Len(schedule) = DaysNeeded
       /\ Len(schedule) > 0 => LastEntry.cumulativePagesRead = data.totalPages

\* a schedule that fills the limit exactly and completes the book
C1_Witness ==
    /\ Projecting
    /\ DaysNeeded = Limit(variant)
    /\ Len(schedule) = Limit(variant)
    /\ LastEntry.cumulativePagesRead = data.totalPages

\* C2 as stated: in every schedule every entry but the last reads dailyPace
\* pages, and the last reads totalPages minus the cumulative pages before
\* it, at most dailyPace.
C2_LastDayTakesTheRest ==
    Len(schedule) > 0 =>
        /\ \A i \in 1..(Len(schedule) - 1) :
               schedule[i].pagesToReadToday = data.pagesPerDay
        /\ LastEntry.pagesToReadToday
               = data.totalPages - CumulativeBefore(Len(schedule))
        /\ LastEntry.pagesToReadToday <= data.pagesPerDay

\* C2 amended: in every schedule every entry but the last reads dailyPace
\* pages; when the days needed do not exceed the safety cap, the last entry
\* reads totalPages minus the cumulative pages before it, at most dailyPace;
\* in a schedule cut by the cap the last entry reads dailyPace pages too.
C2_LastDayTakesTheRestUnderCap ==
    Len(schedule) > 0 =>
        /\ \A i \in 1..(Len(schedule) - 1) :
               schedule[i].pagesToReadToday = data.pagesPerDay
        /\ UnderCap =>
               /\ LastEntry.pagesToReadToday
                      = data.totalPages - CumulativeBefore(Len(schedule))
               /\ LastEntry.pagesToReadToday <= data.pagesPerDay
        /\ LastEntry.cumulativePagesRead < data.totalPages =>
               LastEntry.pagesToReadToday = data.pagesPerDay

\* a completed schedule of several days whose last day is a short one
C2_Witness ==
    /\ UnderCap
    /\ Len(schedule) >= 2
    /\ LastEntry.pagesToReadToday < data.pagesPerDay
    /\ LastEntry.pagesToReadToday
           = data.totalPages - CumulativeBefore(Len(schedule))

\* C3: the schedule is empty whenever pagesRead >= totalPages (pagesRead
\* above totalPages and totalPages = 0 included) and whenever
\* dailyPace <= 0; the pages left are clamped to 0, never negative.
C3_EmptyWhenNothingToProject ==
    /\ (data.pagesRead >= data.totalPages \/ data.pagesPerDay <= 0)
           => schedule = <<>>
    /\ pagesLeft(data) >= 0
    /\ data.pagesRead >= data.totalPages => pagesLeft(data) = 0

\* pages are left but the pace is 0, and the schedule is empty
C3_Witness ==
    /\ data.pagesRead < data.totalPages
    /\ data.pagesPerDay = 0
    /\ schedule = <<>>

\* C4: the page ranges tile: the first startPage is pagesRead + 1, every
\* endPage is the entry's cumulativePagesRead, and each startPage is the
\* endPage before it plus 1.
C4_PageRangesTile ==
    /\ Len(schedule) > 0 => schedule[1].startPage = data.pagesRead + 1
    /\ \A i \in 1..Len(schedule) :
           schedule[i].endPage = schedule[i].cumulativePagesRead
    /\ \A i \in 1..(Len(schedule) - 1) :
           schedule[i + 1].startPage = schedule[i].endPage + 1

\* a schedule of three days or more that starts inside the book
C4_Witness ==
    /\ Len(schedule) >= 3
    /\ data.pagesRead > 0
    /\ schedule[1].startPage = data.pagesRead + 1
    /\ schedule[3].startPage = schedule[2].endPage + 1

PercentNonDecreasing ==
    \A i \in 1..(Len(schedule) - 1) :
        schedule[i].percentComplete <= schedule[i + 1].percentComplete

\* C5 as stated: in every non-empty schedule with totalPages > 0,
\* percentComplete never decreases and is exactly 100 on the last entry.
C5_PercentReaches100 ==
    (Len(schedule) > 0 /\ data.totalPages > 0) =>
        /\ PercentNonDecreasing
        /\ LastEntry.percentComplete = 100

\* C5 amended: in every non-empty schedule with totalPages > 0,
\* percentComplete never decreases; it is exactly 100 on the last entry
\* when the days needed do not exceed the safety cap.
C5_PercentReaches100UnderCap ==
    (Len(schedule) > 0 /\ data.totalPages > 0) =>
        /\ PercentNonDecreasing
        /\ UnderCap => LastEntry.percentComplete = 100

\* a completed schedule of several days: below 100 first, 100 at the end
C5_Witness ==
    /\ UnderCap
    /\ Len(schedule) >= 2
    /\ schedule[1].percentComplete < 100
    /\ LastEntry.percentComplete = 100

\* C6: the first entry of a non-empty schedule is dated today when
\* startsFromToday is true, and today plus one day when it is false.
C6_FirstEntryDate ==
    Len(schedule) > 0 =>
        schedule[1].date = format(variant, addDays(today, FirstOffset))

\* the flag is set and the first entry is dated today
C6_Witness ==
    /\ HasFlag(data)
    /\ data.startsFromToday
    /\ Len(schedule) > 0
    /\ schedule[1].date = format(variant, today)
    /\ schedule[1].date # format(variant, addDays(today, 1))

\* C7: the entries are one calendar day apart, in increasing order: entry
\* i + 1 is dated the day after entry i, no day skipped or repeated.
C7_ConsecutiveDays ==
    /\ \A i \in 1..Len(schedule) :
           schedule[i].date = format(variant, addDays(today, FirstOffset + (i - 1)))
    /\ \A i \in 1..(Len(schedule) - 1) :
           schedule[i + 1].date # schedule[i].date

\* a schedule that runs through a 29th of February and a new year
C7_Witness ==
    /\ Len(schedule) >= Limit180
    /\ today = DayNumber(2023, 12, 30)
    /\ schedule[2].date = format(variant, DayNumber(2023, 12, 31) + FirstOffset)
    /\ \E i \in 1..Len(schedule) :
           schedule[i].date = format(variant, DayNumber(2024, 2, 29))

\* C8: the components without the start-today flag (day counter from 1)
\* never emit more entries than their cap, 180 or 365, and inputs that need
\* more days give exactly that many entries.
C8_CappedWithoutFlag ==
    variant \in {"advice180", "plain365"} =>
        /\ Len(schedule) <= Limit(variant)
        /\ (Projecting /\ DaysNeeded > Limit(variant))
               => Len(schedule) = Limit(variant)

\* a schedule cut at 365 entries before the book is finished
C8_Witness ==
    /\ variant = "plain365"
    /\ Len(schedule) = Limit365
    /\ LastEntry.cumulativePagesRead < data.totalPages

\* C9: the component with the startsFromToday flag, whose loop limit is
\* written as 180, emits at most 180 entries, the flag set or not.
C9_CappedWithFlag ==
    variant = "flag180" => Len(schedule) <= Limit180

(***************************************************************************)
(* The projection run step by step: one action per pass through the loop,  *)
(* for the ReadingData the input handler can produce.                      *)
(***************************************************************************)
RunInit ==
    /\ variant \in Variants
    /\ today \in Todays
    /\ \E tp \in InputValues(variant, today, "totalPages") :
       \E pr \in InputValues(variant, today, "pagesRead") :
       \E ppd \in InputValues(variant, today, "pagesPerDay") :
       \E flag \in BOOLEAN :
           LET d0 == DefaultData(variant, today)
               d1 == SetField(d0, "totalPages", NewValue("totalPages", tp))
               d2 == SetField(d1, "pagesRead", NewValue("pagesRead", pr))
               d3 == SetField(d2, "pagesPerDay", NewValue("pagesPerDay", ppd))
           IN  data = IF variant = "flag180"
                      THEN SetField(d3, "startsFromToday", flag)
                      ELSE d3
    /\ schedule = <<>>
    /\ pc = "start"
    /\ items = <<>>
    /\ currentPagesRead = 0
    /\ dayCount = 0
    /\ savedData = <<>>
    /\ storage = <<>>
    /\ advice = NoAdvice
    /\ timers = {}
    /\ fetches = {}
    /\ issued = 0
    /\ service = "geminiService"
    /\ apiKey = TRUE

LoopState == [items            |-> items,
              currentPagesRead |-> currentPagesRead,
              dayCount         |-> dayCount]

\* const items = []; if (...) return items; let currentPagesRead = ...
ScheduleEnter ==
    /\ pc = "start"
    /\ IF EarlyReturn(data)
       THEN /\ pc' = "done"
            /\ schedule' = <<>>
            /\ UNCHANGED <<items, currentPagesRead, dayCount>>
       ELSE /\ pc' = "loop"
            /\ items' = LoopEntry(variant, data).items
            /\ currentPagesRead' = LoopEntry(variant, data).currentPagesRead
            /\ dayCount' = LoopEntry(variant, data).dayCount
            /\ UNCHANGED schedule
    /\ UNCHANGED <<variant, today, data, savedData, storage, adviceVars, serviceVars>>

\* the loop test holds: one pass through the body, left by break when the
\* day counter has passed the limit
ScheduleIterate ==
    /\ pc = "loop"
    /\ LoopTest(data, LoopState)
    /\ LET next == Iteration(variant, today, data, LoopState)
       IN  /\ items' = next.items
           /\ currentPagesRead' = next.currentPagesRead
           /\ dayCount' = next.dayCount
           /\ IF Break(variant, next)
              THEN pc' = "done" /\ schedule' = next.items
              ELSE pc' = "loop" /\ UNCHANGED schedule
    /\ UNCHANGED <<variant, today, data, savedData, storage, adviceVars, serviceVars>>

\* the loop test fails: return items
ScheduleReturn ==
    /\ pc = "loop"
    /\ ~LoopTest(data, LoopState)
    /\ pc' = "done"
    /\ schedule' = items
    /\ UNCHANGED <<variant, today, data, items, currentPagesRead, dayCount,
                   savedData, storage, adviceVars, serviceVars>>

RunNext == ScheduleEnter \/ ScheduleIterate \/ ScheduleReturn

\* the render runs to its end once started: nothing else runs meanwhile
RunSpec == RunInit /\ [][RunNext]_vars /\ WF_vars(RunNext)

\* the step-by-step run returns what Schedule computes
RunAgreesWithSchedule ==
    pc = "done" => schedule = Schedule(variant, today, data)

\* the loop was left by break, with the limit's worth of entries or more
CutAtCap == dayCount > Limit(variant) /\ Len(schedule) >= Limit(variant)

\* C10: the projection terminates for every ReadingData the input handler
\* can produce: it ends with an empty schedule, or with a schedule whose
\* last cumulativePagesRead is totalPages, or with a schedule cut at the
\* safety cap.
C10_ProjectionTerminates ==
    (pc = "start") ~>
        (/\ pc = "done"
         /\ \/ schedule = <<>>
            \/ LastEntry.cumulativePagesRead = data.totalPages
            \/ CutAtCap)

\* a run that ended by the cap with pages still to read
C10_Witness ==
    /\ pc = "done"
    /\ CutAtCap
    /\ schedule # <<>>
    /\ LastEntry.cumulativePagesRead < data.totalPages

(***************************************************************************)
(* The plan of a book of ordinary length: the edits a user makes to the    *)
(* form with the lengths, paces and deadlines of the worked examples.      *)
(***************************************************************************)
PlanTotals == {NumberToString(n) : n \in {40, 95, 100, 200, 300}}

PlanPagesRead == {NumberToString(n) : n \in {0, 90}}

PlanPaces == {NumberToString(n) : n \in {7, 23, 29, 50}}

\* what the date input can hold: nothing, yesterday, today, ten days ahead
PlanDates(tdy) == {<<>>, FormatISO(addDays(tdy, 0 - 1)), FormatISO(tdy),
                   FormatISO(addDays(tdy, 10))}

PlanValues(tdy, name) ==
    CASE name = "totalPages"       -> PlanTotals
      [] name = "pagesRead"        -> PlanPagesRead
      [] name = "pagesPerDay"      -> PlanPaces
      [] name = "targetFinishDate" -> PlanDates(tdy)

PlanFields == {"totalPages", "pagesRead", "targetFinishDate", "pagesPerDay"}

EditPlan == \E name \in PlanFields : \E value \in PlanValues(today, name) :
                handleInputChange(name, value)

PlanNext == EditPlan \/ ToggleFlag

PlanSpec == Init /\ [][PlanNext]_vars

\* C11 as stated: every entry's percentComplete is an integer in 0..100,
\* equal to 100 * cumulativePagesRead / totalPages rounded to the nearest
\* integer with halves rounded up (29 of 200 gives 15).
C11_PercentRoundsHalvesUp ==
    \A i \in 1..Len(schedule) :
        /\ schedule[i].percentComplete \in 0..100
        /\ schedule[i].percentComplete
               = RoundPercentTiesUp(schedule[i].cumulativePagesRead, data.totalPages)

\* C12: in every projected schedule each entry's pagesToReadToday is an
\* integer from 1 to the daily pace, and cumulativePagesRead is strictly
\* increasing across the entries, above pagesRead on the first and never
\* above totalPages.
C12_PagesAndCumulativeBounds ==
    \A i \in 1..Len(schedule) :
        /\ schedule[i].pagesToReadToday \in 1..data.pagesPerDay
        /\ schedule[i].cumulativePagesRead > CumulativeBefore(i)
        /\ schedule[i].cumulativePagesRead > data.pagesRead
        /\ schedule[i].cumulativePagesRead <= data.totalPages

\* a schedule of several days whose last day reads less than the pace
C12_Witness ==
    /\ Len(schedule) >= 2
    /\ data.pagesRead > 0
    /\ LastEntry.pagesToReadToday < data.pagesPerDay
    /\ schedule[1].pagesToReadToday = data.pagesPerDay

\* the worked example of a book nearly finished: 100 pages, 90 read, 7 a day
NearlyFinished ==
    data.totalPages = 100 /\ data.pagesRead = 90 /\ data.pagesPerDay = 7

\* C13 as stated: for totalPages = 100, pagesRead = 90 and dailyPace = 7 the
\* projection yields a single entry with pagesToReadToday = 10 and
\* percentComplete = 100.
C13_SingleEntryOfTen ==
    NearlyFinished =>
        /\ Len(schedule) = 1
        /\ schedule[1].pagesToReadToday = 10
        /\ schedule[1].percentComplete = 100

\* C13 amended: for totalPages = 100, pagesRead = 90 and dailyPace = 7 the
\* projection yields two entries, of 7 pages (pages 91-97, 97 percent) and
\* of 3 pages (pages 98-100, 100 percent).
C13_TwoEntriesSevenAndThree ==
    NearlyFinished =>
        /\ Len(schedule) = 2
        /\ schedule[1].pagesToReadToday = 7
        /\ schedule[1].startPage = 91 /\ schedule[1].endPage = 97
        /\ schedule[1].percentComplete = 97
        /\ schedule[2].pagesToReadToday = 3
        /\ schedule[2].startPage = 98 /\ schedule[2].endPage = 100
        /\ schedule[2].percentComplete = 100

C13_Witness == NearlyFinished /\ Len(schedule) = 2

\* the worked example of six even days: 300 pages, none read, 50 a day,
\* starting tomorrow
SixEvenDays ==
    /\ data.totalPages = 300 /\ data.pagesRead = 0 /\ data.pagesPerDay = 50
    /\ ~(HasFlag(data) /\ data.startsFromToday)

\* C14: for totalPages = 300, pagesRead = 0, dailyPace = 50 and
\* startsFromToday = false the projection yields exactly 6 entries dated
\* today + 1 through today + 6, with page ranges 1-50, 51-100, 101-150,
\* 151-200, 201-250, 251-300 and percentComplete 17, 33, 50, 67, 83, 100.
C14_SixEvenDays ==
    SixEvenDays =>
        /\ Len(schedule) = 6
        /\ \A i \in 1..6 :
               /\ schedule[i].date = format(variant, addDays(today, i))
               /\ schedule[i].startPage = 50 * (i - 1) + 1
               /\ schedule[i].endPage = 50 * i
        /\ [i \in 1..6 |-> schedule[i].percentComplete] = <<17, 33, 50, 67, 83, 100>>

C14_Witness == SixEvenDays /\ Len(schedule) = 6 /\ variant = "flag180"

(***************************************************************************)
(* The Pace Solver.  The components keep targetFinishDate and never read   *)
(* it; derivePace is written here from its contract: the days available   *)
(* are the calendar days from the reference date to the target date, plus  *)
(* one when reading starts today, and the pace is the pages remaining      *)
(* over the days available, rounded up.                                    *)
(***************************************************************************)
\* a well-formed yyyy-MM-dd date of the calendar above
IsISODate(s) ==
    /\ Len(s) = 10
    /\ s[5] = "-" /\ s[8] = "-"
    /\ \A k \in {1, 2, 3, 4, 6, 7, 9, 10} : IsDigit(s[k])
    /\ LET y == ParseDigits(SubSeq(s, 1, 4), 0)
           m == ParseDigits(SubSeq(s, 6, 7), 0)
           d == ParseDigits(SubSeq(s, 9, 10), 0)
       IN  y >= 2023 /\ m \in 1..12 /\ d \in 1..DaysInMonth(y, m)

ParseISODate(s) == DayNumber(ParseDigits(SubSeq(s, 1, 4), 0),
                             ParseDigits(SubSeq(s, 6, 7), 0),
                             ParseDigits(SubSeq(s, 9, 10), 0))

calendarDaysBetween(referenceDate, targetDate) == targetDate - referenceDate

\* a slip: the day gained by starting today is left out
daysAvailableWithoutToday(targetDate, startsToday, referenceDate) ==
    calendarDaysBetween(referenceDate, ParseISODate(targetDate))

daysAvailable(targetDate, startsToday, referenceDate) ==
    calendarDaysBetween(referenceDate, ParseISODate(targetDate))
        + (IF startsToday THEN 1 ELSE 0)

\* the suggested pace, or no suggestion (suggested = FALSE) for a malformed
\* date, no day available or no page remaining
derivePace(targetDate, totalPages, pagesRead, startsToday, referenceDate) ==
    LET pagesRemaining == Max(0, totalPages - pagesRead)
    IN  IF /\ IsISODate(targetDate)
           /\ daysAvailable(targetDate, startsToday, referenceDate) > 0
           /\ pagesRemaining > 0
        THEN [suggested |-> TRUE,
              pace |-> Ceil(pagesRemaining,
                            daysAvailable(targetDate, startsToday, referenceDate))]
        ELSE [suggested |-> FALSE, pace |-> 0]

\* data.startsFromToday as a condition
StartsToday == HasFlag(data) /\ data.startsFromToday

\* what the solver derives from the state
Suggestion == derivePace(data.targetFinishDate, data.totalPages, data.pagesRead,
                         StartsToday, today)

\* an edit of one of the fields the solver is to follow
SolverTrigger == \E name \in {"targetFinishDate", "totalPages", "pagesRead"} :
                     \E value \in PlanValues(today, name) : handleInputChange(name, value)

\* C15 as stated: when the user edits the target date, the total page count
\* or the pages-read count, and daysAvailable > 0 and pagesRemaining > 0,
\* the daily pace is set to ceil(pagesRemaining / daysAvailable).
C15_EditDerivesPace ==
    [][(SolverTrigger /\ Suggestion'.suggested)
           => data'.pagesPerDay = Suggestion'.pace]_vars

\* the user enters the pace the solver suggests in the pace field
EnterSuggestedPace ==
    /\ Suggestion.suggested
    /\ \E value \in {NumberToString(Suggestion.pace)} :
           handleInputChange("pagesPerDay", value)

SolverNext == EditPlan \/ ToggleFlag \/ EnterSuggestedPace

SolverSpec == Init /\ [][SolverNext]_vars

\* the pace of the plan is the pace the solver derives
PaceIsSuggested == Suggestion.suggested /\ data.pagesPerDay = Suggestion.pace

\* C16: for every target date and state with daysAvailable > 0 and
\* pagesRemaining > 0, the schedule projected with the pace derived by the
\* solver, under the safety cap, has a last entry dated on or before the
\* target date.
C16_DeadlineMetOrBeaten ==
    (PaceIsSuggested /\ UnderCap) =>
        /\ Len(schedule) > 0
        /\ \E k \in 0..calendarDaysBetween(today, ParseISODate(data.targetFinishDate)) :
               LastEntry.date = format(variant, addDays(today, k))

\* a plan starting today that ends on the very day of the deadline
C16_Witness ==
    /\ PaceIsSuggested /\ UnderCap
    /\ StartsToday
    /\ Len(schedule) >= 2
    /\ LastEntry.date = format(variant, ParseISODate(data.targetFinishDate))

\* the worked example: a target date 10 days after today, 95 pages
\* remaining, starting today
TenDaysOut ==
    /\ data.targetFinishDate = FormatISO(addDays(today, 10))
    /\ data.totalPages - data.pagesRead = 95
    /\ StartsToday

\* C17 as stated: derivePace with a target date 10 days after the reference
\* date, 95 pages remaining and startsToday = true returns a pace of 10.
C17_PaceOfTen == TenDaysOut => Suggestion = [suggested |-> TRUE, pace |-> 10]

\* C17 amended: derivePace with a target date 10 days after the reference
\* date, 95 pages remaining and startsToday = true has 11 days available
\* and returns a pace of 9.
C17_PaceOfNine == TenDaysOut => Suggestion = [suggested |-> TRUE, pace |-> 9]

\* the suggestion of the worked example entered and projected
C17_Witness == TenDaysOut /\ data.pagesPerDay = 9 /\ Len(schedule) = 11

\* an edit of the pace field to the text value
PaceEdit(value) == handleInputChange("pagesPerDay", value)

\* C18: after a pagesPerDay edit, pagesPerDay holds exactly the sanitised
\* value the user entered, and targetFinishDate, totalPages, pagesRead,
\* bookTitle and startsFromToday are unchanged: a pace edit triggers no
\* reverse solve, so pace and date never update each other.
C18_PaceEditTouchesOnlyPace ==
    [][\A value \in InputValues(variant, today, "pagesPerDay") :
           PaceEdit(value) =>
               /\ data'.pagesPerDay = Sanitise(value)
               /\ DOMAIN data' = DOMAIN data
               /\ \A f \in DOMAIN data \ {"pagesPerDay"} : data'[f] = data[f]]_vars

\* a pace has been typed over the default, with a deadline and the flag set
C18_Witness ==
    /\ data.pagesPerDay = 3
    /\ data.targetFinishDate = FormatISO(addDays(today, 10))
    /\ StartsToday
    /\ data.totalPages > 0

\* C19: when the target date is edited to a value with daysAvailable <= 0
\* (today without the start-today flag, or a past date) or to a malformed
\* value, or when pagesRemaining is 0, no pace is suggested: pagesPerDay
\* keeps its previous value, and the edit goes through without an error.
C19_NoSuggestionKeepsPace ==
    [][(SolverTrigger /\ ~Suggestion'.suggested)
           => /\ data'.pagesPerDay = data.pagesPerDay
              /\ schedule' = Schedule(variant, today, data')]_vars

\* the deadline set to yesterday with pages remaining, the pace as typed before
C19_Witness ==
    /\ data.targetFinishDate = FormatISO(addDays(today, 0 - 1))
    /\ ~Suggestion.suggested
    /\ pagesLeft(data) > 0
    /\ data.pagesPerDay = 7

(***************************************************************************)
(* Mounting a component over what an earlier session left in localStorage. *)
(***************************************************************************)
\* records saved before the startsFromToday field existed
LegacyRecords(tdy) ==
    {[bookTitle        |-> t,
      totalPages       |-> n,
      pagesRead        |-> r,
      targetFinishDate |-> FormatISO(addDays(tdy, 10)),
      pagesPerDay      |-> p] : t \in Titles, n \in {100, 300}, r \in {0, 90}, p \in {7, 50}}

\* records saved with the field
FlaggedRecords(tdy) ==
    {SetField(rec, "startsFromToday", b) : rec \in LegacyRecords(tdy), b \in BOOLEAN}

\* a text cut short, which JSON.parse rejects
Damaged(text) == SubSeq(text, 1, Len(text) - 1)

\* what localStorage.getItem(STORAGE_KEY) can find at mount
SavedTexts(v, tdy) ==
    IF UsesStorage(v)
    THEN {<<>>}
         \cup {JSONstringify(rec) : rec \in LegacyRecords(tdy) \cup FlaggedRecords(tdy)}
         \cup {Damaged(JSONstringify(rec)) : rec \in LegacyRecords(tdy)}
    ELSE {<<>>}

\* before the first render: the item an earlier session left is in storage
\* and the component has no state yet (data holds the value the initialiser
\* falls back on)
LoadInit ==
    /\ variant \in Variants
    /\ today \in Todays
    /\ storage \in SavedTexts(variant, today)
    /\ savedData = <<>>
    /\ data = DefaultData(variant, today)
    /\ schedule = <<>>
    /\ pc = "mount"
    /\ items = <<>>
    /\ currentPagesRead = 0
    /\ dayCount = 0
    /\ advice = NoAdvice
    /\ timers = {}
    /\ fetches = {}
    /\ issued = 0
    /\ service = "geminiService"
    /\ apiKey = TRUE

\* the first render: the useState initialiser reads localStorage, the
\* schedule is computed and the save and advice effects run
Mount ==
    /\ pc = "mount"
    /\ savedData' = IF UsesStorage(variant) THEN storage ELSE <<>>
    /\ data' = InitialData(variant, today, savedData')
    /\ schedule' = useMemo(variant, today, data', schedule, TRUE)
    /\ storage' = SaveEffect(variant, data', storage)
    /\ advice' = NoAdvice
    /\ timers' = (IF HasAdvice(variant) THEN TimersOnRun(Deps(data'), {}) ELSE {})
    /\ pc' = "idle"
    /\ UNCHANGED <<variant, today, items, currentPagesRead, dayCount,
                   fetches, issued, serviceVars>>

EditTitle == /\ pc = "idle"
             /\ \E value \in Titles : handleInputChange("bookTitle", value)

ToggleLoaded == pc = "idle" /\ ToggleFlag

LoadNext == Mount \/ EditTitle \/ ToggleLoaded

LoadSpec == LoadInit /\ [][LoadNext]_vars

\* the text in storage is a saved record without the startsFromToday field
IsLegacyText(text, tdy) == \E rec \in LegacyRecords(tdy) : text = JSONstringify(rec)

\* C20: loading a saved record that lacks the startsFromToday field yields
\* a state whose startsFromToday is false and whose other fields equal the
\* saved values; the load does not fail for the absence of the field.
C20_LegacyRecordLoads ==
    [][(Mount /\ variant = "flag180" /\ IsLegacyText(storage, today))
           => \E rec \in LegacyRecords(today) :
                  /\ storage = JSONstringify(rec)
                  /\ HasFlag(data') /\ data'.startsFromToday = FALSE
                  /\ \A f \in DOMAIN rec : data'[f] = rec[f]
                  /\ DOMAIN data' = DOMAIN rec \cup {"startsFromToday"}]_vars

\* a legacy record of a 300-page book loaded, the flag defaulted
C20_Witness ==
    /\ pc = "idle"
    /\ variant = "flag180"
    /\ IsLegacyText(savedData, today)
    /\ data.totalPages = 300 /\ data.pagesRead = 90 /\ data.pagesPerDay = 7
    /\ data.startsFromToday = FALSE
    /\ Len(schedule) = 30

(***************************************************************************)
(* Recomputation, storage and the finish date.                             *)
(***************************************************************************)
\* the fields the projection reads, the others blanked
ProjectionInputs(d) == [d EXCEPT !.bookTitle = <<>>, !.targetFinishDate = <<>>]

\* C23: after any sequence of field edits the schedule is the projection
\* computed from scratch from the current state: it is fixed by totalPages,
\* pagesRead, pagesPerDay, the start flag and today alone, and a render
\* with no edit gives the same schedule again.
C23_ScheduleIsProjection ==
    /\ schedule = Schedule(variant, today, data)
    /\ schedule = Schedule(variant, today, ProjectionInputs(data))
    /\ useMemo(variant, today, data, schedule, FALSE) = Schedule(variant, today, data)

\* several edits made, a title among them, and a schedule of several days
C23_Witness ==
    /\ data.bookTitle # <<>>
    /\ data.pagesRead > 0
    /\ data.pagesPerDay # 20
    /\ Len(schedule) >= 2

\* C24: after every state change the record in storage is the current
\* ReadingData, and loading that record back gives exactly the state that
\* was saved, startsFromToday included.
C24_LoadOfSaveIsState ==
    UsesStorage(variant) =>
        /\ storage = JSONstringify(data)
        /\ InitialData(variant, today, storage) = data

\* a record with a title, edited numbers and the start flag set
C24_Witness ==
    /\ variant = "flag180"
    /\ data.bookTitle # <<>>
    /\ data.totalPages > 0
    /\ data.startsFromToday
    /\ storage = JSONstringify(data)

\* the entries on which cumulativePagesRead reaches totalPages
FinishingEntries == {i \in 1..Len(schedule) :
                        schedule[i].cumulativePagesRead >= data.totalPages}

NotAvailable == <<"N", "/", "A">>

\* C25 as stated: whenever the schedule is non-empty the estimated finish
\* date is the date of the entry on which cumulativePagesRead reaches
\* totalPages, and it is 'N/A' exactly when pagesLeft is 0 or pagesPerDay
\* is 0.
C25_FinishDateIsCompletion ==
    /\ Len(schedule) > 0 =>
           /\ FinishingEntries # {}
           /\ \A i \in FinishingEntries :
                  estimatedFinishDate(schedule) = schedule[i].date
    /\ estimatedFinishDate(schedule) = NotAvailable
           <=> (pagesLeft(data) = 0 \/ data.pagesPerDay = 0)

\* C25 amended: whenever the schedule is non-empty the estimated finish
\* date is the date of its last entry, which is the one entry on which
\* cumulativePagesRead reaches totalPages when the days needed are within
\* the loop limit; it is 'N/A' exactly when pagesLeft is 0 or pagesPerDay
\* is 0.
C25_FinishDateIsCompletionUnderCap ==
    /\ Len(schedule) > 0 =>
           /\ estimatedFinishDate(schedule) = LastEntry.date
           /\ UnderCap =>
                  /\ FinishingEntries = {Len(schedule)}
                  /\ \A i \in FinishingEntries :
                         estimatedFinishDate(schedule) = schedule[i].date
    /\ estimatedFinishDate(schedule) = NotAvailable
           <=> (pagesLeft(data) = 0 \/ data.pagesPerDay = 0)

\* a schedule of several days that ends on the day the book is finished
C25_Witness ==
    /\ UnderCap
    /\ Len(schedule) >= 2
    /\ LastEntry.cumulativePagesRead = data.totalPages
    /\ estimatedFinishDate(schedule) = LastEntry.date


(***************************************************************************)
(* The form: what the number fields hold after any edits.                  *)
(***************************************************************************)
NumberFields == {"totalPages", "pagesRead", "pagesPerDay"}

\* input that is not a number at all
NotNumbers == {<<"a", "b", "c">>, <<"-">>}

\* input that is empty, negative or not a number
StoredAsZero == {<<>>, <<"-", "2">>} \cup NotNumbers

FormValues(tdy, name) ==
    CASE name = "bookTitle"        -> Titles
      [] name = "targetFinishDate" -> TargetDates(tdy)
      [] OTHER                     -> SmallNumbers \cup OddNumbers \cup NotNumbers

EditForm == \E name \in TextFields : \E value \in FormValues(today, name) :
                handleInputChange(name, value)

FormNext == EditForm \/ ToggleFlag

FormSpec == Init /\ [][FormNext]_vars

NumbersAreNatural ==
    /\ \A f \in NumberFields : data[f] \in Nat
    /\ pagesLeft(data) \in Nat
    /\ pagesLeft(data) = (IF data.totalPages >= data.pagesRead
                          THEN data.totalPages - data.pagesRead ELSE 0)

\* C26: starting from the default state, after any sequence of edits
\* through handleInputChange, totalPages, pagesRead and pagesPerDay are
\* non-negative integers (empty, non-numeric or negative input is stored
\* as 0), pagesLeft is max(0, totalPages - pagesRead), and each edit
\* changes only the field it names.
C26_NumberFieldsStayNatural ==
    /\ NumbersAreNatural
    /\ [][/\ NumbersAreNatural'
          /\ \A name \in TextFields : \A value \in FormValues(today, name) :
                 handleInputChange(name, value) =>
                     /\ DOMAIN data' = DOMAIN data
                     /\ \A f \in DOMAIN data \ {name} : data'[f] = data[f]
                     /\ (name \in NumberFields /\ value \in StoredAsZero)
                            => data'[name] = 0]_vars

\* the pace cleared to 0 and more pages read than the book has
C26_Witness ==
    /\ data.pagesPerDay = 0
    /\ data.totalPages > 0
    /\ data.pagesRead > data.totalPages
    /\ pagesLeft(data) = 0


(***************************************************************************)
(* The overall progress figure of the dashboard.                           *)
(***************************************************************************)
\* data.totalPages > 0 ? Math.min(100, Math.round((data.pagesRead /
\* data.totalPages) * 100)) : 0, in the component with the Gemini tip
completionPercent(d) ==
    IF d.totalPages > 0 THEN Min(100, RoundPercent(d.pagesRead, d.totalPages)) ELSE 0

\* {data.totalPages > 0 ? Math.round((data.pagesRead / data.totalPages) *
\* 100) : 0}%, in the component with the startsFromToday flag
ProgressStatus(d) ==
    IF d.totalPages > 0 THEN RoundPercent(d.pagesRead, d.totalPages) ELSE 0

\* the figure the dashboard of component v prints; the third component
\* draws a bar and prints no figure
ShownPercent(v, d) == IF v = "flag180" THEN ProgressStatus(d) ELSE completionPercent(d)

\* C30: in every reachable state the overall-progress percentage shown in
\* the dashboard is an integer in 0..100: 0 when totalPages is 0, and never
\* above 100 even when pagesRead exceeds totalPages.
C30_ProgressWithin100 ==
    variant # "plain365" =>
        /\ ShownPercent(variant, data) \in 0..100
        /\ data.totalPages = 0 => ShownPercent(variant, data) = 0


(***************************************************************************)
(* The advice: the timer of the effect, fetchAdvice and getReadingAdvice.  *)
(* An advice text is known by the request it answers: its title,           *)
(* pagesLeft, pace and the number of the call.                             *)
(***************************************************************************)
\* the calls of getReadingAdvice in a run
MaxRequests == 3

\* the three getReadingAdvice of the repository: services/geminiService.ts
\* (the one App.tsx imports), the one with the lazy client, and the one
\* that answers a failure with a fixed sentence
Services == {"geminiService", "lazyClient", "fixedSentence"}

\* return null
Null == [kind |-> "null", title |-> <<>>, pagesLeft |-> 0, pace |-> 0, seq |-> 0]

\* return "Keep going! Every page turned is a step closer to ..."
KeepGoing == [kind |-> "default", title |-> <<>>, pagesLeft |-> 0, pace |-> 0, seq |-> 0]

\* response.text of the answer to request f
ResponseText(f) == [kind |-> "tip", title |-> f.title, pagesLeft |-> f.pagesLeft,
                    pace |-> f.pace, seq |-> f.seq]

\* what generateContent can do: answer with a text, answer with no text,
\* or fail; without a key it fails
Outcomes(key) == IF key THEN {"text", "blank", "failure"} ELSE {"failure"}

\* getReadingAdvice(title, pagesLeft, pace) for request f: the value the
\* promise resolves to
getReadingAdvice(svc, key, f, outcome) ==
    IF svc = "lazyClient" /\ ~key THEN Null
    ELSE CASE outcome = "text"  -> ResponseText(f)
           [] outcome = "blank" -> NoAdvice
           [] OTHER             -> IF svc = "fixedSentence" THEN KeepGoing ELSE Null

\* if (tip): null, undefined and '' are falsy
Truthy(tip) == tip.kind \in {"tip", "default"}

AdviceFields == {"bookTitle", "totalPages", "pagesPerDay"}

AdviceValues(name) ==
    CASE name = "bookTitle"  -> Titles
      [] name = "totalPages" -> {NumberToString(0), NumberToString(2)}
      [] OTHER               -> {NumberToString(1), NumberToString(20)}

\* the component with the tip, mounted with nothing saved, with any of the
\* services and with or without a key
AdviceInit ==
    /\ variant = "advice180"
    /\ today \in Todays
    /\ savedData = <<>>
    /\ data = InitialData(variant, today, savedData)
    /\ schedule = Schedule(variant, today, data)
    /\ storage = SaveEffect(variant, data, savedData)
    /\ pc = "idle"
    /\ items = <<>>
    /\ currentPagesRead = 0
    /\ dayCount = 0
    /\ advice = NoAdvice
    /\ timers = TimersOnRun(Deps(data), {})
    /\ fetches = {}
    /\ issued = 0
    /\ service \in Services
    /\ apiKey \in BOOLEAN

EditAdvised == \E name \in AdviceFields : \E value \in AdviceValues(name) :
                   handleInputChange(name, value)

\* the timers that have run their delay
Due(tms) == {t \in tms : t.elapsed >= AdviceDelay}

\* half the delay passes; a timer that is due fires before more time passes
Tick ==
    /\ timers # {}
    /\ Due(timers) = {}
    /\ timers' = {[t EXCEPT !.elapsed = @ + AdviceDelay \div 2] : t \in timers}
    /\ UNCHANGED <<variant, today, data, schedule, pc, items, currentPagesRead,
                   dayCount, savedData, storage, advice, fetches, issued, serviceVars>>

\* the request fetchAdvice makes when timer t fires
Request(t, n) == [seq |-> n, title |-> t.title, pagesLeft |-> t.pagesLeft, pace |-> t.pace]

\* the timer fires: fetchAdvice calls getReadingAdvice with the values it
\* closed over and awaits the answer
TimerFires(t) ==
    /\ t \in Due(timers)
    /\ issued < MaxRequests
    /\ timers' = timers \ {t}
    /\ issued' = issued + 1
    /\ fetches' = fetches \cup {Request(t, issued + 1)}
    /\ UNCHANGED <<variant, today, data, schedule, pc, items, currentPagesRead,
                   dayCount, savedData, storage, advice, serviceVars>>

\* a slip: the tip is written into the reading data
fetchAdviceIntoData(f, outcome) ==
    /\ f \in fetches
    /\ outcome \in Outcomes(apiKey)
    /\ fetches' = fetches \ {f}
    /\ data' = [data EXCEPT !.bookTitle = <<>>, !.pagesPerDay = 0]
    /\ schedule' = useMemo(variant, today, data', schedule, TRUE)
    /\ UNCHANGED <<variant, today, pc, items, currentPagesRead, dayCount,
                   savedData, storage, advice, timers, issued, serviceVars>>

\* the rest of fetchAdvice: const tip = await getReadingAdvice(...);
\* if (tip) setAdvice(tip)
fetchAdvice(f, outcome) ==
    /\ f \in fetches
    /\ outcome \in Outcomes(apiKey)
    /\ fetches' = fetches \ {f}
    /\ \E tip \in {getReadingAdvice(service, apiKey, f, outcome)} :
           advice' = IF Truthy(tip) THEN tip ELSE advice
    /\ UNCHANGED <<variant, today, data, schedule, pc, items, currentPagesRead,
                   dayCount, savedData, storage, timers, issued, serviceVars>>

Fires == \E t \in timers : TimerFires(t)

Answers == \E f \in fetches : \E outcome \in {"text", "blank", "failure"} :
               fetchAdvice(f, outcome)

AdviceNext == EditAdvised \/ Tick \/ Fires \/ Answers

AdviceSpec == AdviceInit /\ [][AdviceNext]_vars

\* a step of the advice machinery: time passing, a timer firing, an answer
AdviceEvent == Tick \/ Fires \/ Answers

\* C21: the schedule is unaffected by the advisory fetch: in every
\* reachable state it is fixed by totalPages, pagesRead, pagesPerDay, the
\* start flag and today, and no advice event (timer set or cancelled,
\* fetch started, succeeded or failed, credential absent) changes the
\* schedule or any ReadingData field.
C21_AdviceLeavesScheduleAlone ==
    /\ schedule = Schedule(variant, today, ProjectionInputs(data))
    /\ [][/\ schedule' = Schedule(variant, today, ProjectionInputs(data'))
          /\ AdviceEvent => UNCHANGED <<data, schedule, storage>>
          /\ \A name \in AdviceFields : \A value \in AdviceValues(name) :
                 handleInputChange(name, value) =>
                     data' = SetField(data, name, NewValue(name, value))]_vars

\* a tip is on display, another request is awaited, and a schedule stands
C21_Witness ==
    /\ advice.kind = "tip"
    /\ fetches # {}
    /\ Len(schedule) >= 2


\* C22: on any failure of the advisory fetch or an absent credential,
\* getReadingAdvice resolves without throwing and the advice shown
\* afterwards is the empty or the default string: a failed fetch never
\* leaves advice obtained for an earlier title, pagesLeft or pace on display.
C22_FailureClearsAdvice ==
    [][\A f \in fetches :
           fetchAdvice(f, "failure") => advice'.kind \in {"empty", "default"}]_vars

\* C27: whenever the book title is empty or pagesLeft is 0 (the advice
\* effect having run for that state), the advice shown is the empty
\* string, in every interleaving, also when a fetch issued for an earlier
\* state completes afterwards.
C27_NoBookNoAdvice == EffectSkips(Deps(data)) => advice = NoAdvice

\* C28: when several advice fetches are in flight, a response to an older
\* (title, pagesLeft, pace) snapshot never overwrites the response to a
\* newer one, so that once all have completed the advice shown is the
\* response to the most recently issued request.
C28_OlderAnswerNeverOverwrites ==
    [][(advice.kind = "tip" /\ advice'.kind = "tip" /\ advice' # advice)
           => advice'.seq > advice.seq]_vars

\* the values timer t was set for
TimerDeps(t) == [title |-> t.title, pagesLeft |-> t.pagesLeft, pace |-> t.pace]

\* C29: an advice fetch is issued only after bookTitle, pagesLeft and
\* pagesPerDay have stayed unchanged for the whole 2000 ms of the timer:
\* a change to one of them before the timer fires cancels the pending
\* timer, so no fetch is issued for the superseded values; at most one
\* timer is pending at any time; the fetch carries the values current when
\* its timer was set.
C29_FetchAfterQuietDelay ==
    /\ Cardinality(timers) <= 1
    /\ [][/\ Cardinality(timers') <= 1
          /\ \A t \in timers' : TimerDeps(t) = Deps(data')
          /\ Deps(data') # Deps(data) =>
                 /\ timers' \cap timers = {}
                 /\ \A t \in timers' : t.elapsed = 0
          /\ issued' # issued =>
                 \E t \in timers :
                     /\ t.elapsed >= AdviceDelay
                     /\ TimerDeps(t) = Deps(data)
                     /\ timers' = timers \ {t}
                     /\ issued' = issued + 1
                     /\ fetches' = fetches \cup {Request(t, issued')}]_vars

\* a request is awaited for the values before an edit, and the timer for
\* the values after it has run half its delay
C29_Witness ==
    /\ \E f \in fetches : [title |-> f.title, pagesLeft |-> f.pagesLeft,
                            pace |-> f.pace] # Deps(data)
    /\ \E t \in timers : TimerDeps(t) = Deps(data) /\ t.elapsed = AdviceDelay \div 2


====
